---- MODULE Spec2Model ----
(***************************************************************************)
(* TreeMap of near-sdk/src/store/tree_map/mod.rs: an AVL index (Tree) over *)
(* a slot arena (FreeList<Node<K>>) plus a key -> value store (LookupMap). *)
(* Every operator below is a translation of the function of the same name. *)
(* A Rust Option<T> is a sequence of length 0 (None) or 1 (Some(x)).       *)
(* A FreeListIndex is the 0-based slot number; the arena is a sequence     *)
(* whose element id+1 is slot id.                                          *)
(***************************************************************************)
EXTENDS Integers, Sequences, FiniteSets, TLC

\* Bounds of the model: keys 1..MaxKey, values 1..MaxVal, at most MaxNodes slots.
MaxKey == 4
MaxVal == 1
MaxNodes == 7

Keys == 1..MaxKey
Vals == 1..MaxVal

VARIABLES
  root,      \* Tree.root : Option<FreeListIndex>
  nodes,     \* Tree.nodes : the arena, a sequence of Node records
  values,    \* TreeMap.values : Keys -> Option<V>
  status,    \* "ok" while the execution runs; "abort" (expect -> env::abort),
             \* "panic" (todo!()), "overflow" (unbounded recursion), "hang"
             \* (a loop that never ends) once an operation did not return
  lastOp,    \* the last call made: [op, key, val]
  ret,       \* what the last call returned (an Option<V>), None if it did not return
  ref,       \* a reference map given the same calls
  inserted   \* the keys ever passed to insert

vars == <<root, nodes, values, status, lastOp, ret, ref, inserted>>

None == << >>
Some(x) == <<x>>
Max(a, b) == IF a >= b THEN a ELSE b

(***************************************************************************)
(* The slot arena (crate::store::free_list::FreeList).                     *)
(***************************************************************************)
FreeList_get(list, id) ==
  IF id \in 0..(Len(list) - 1) THEN Some(list[id + 1]) ELSE None

FreeList_set(list, id, item) == [list EXCEPT ![id + 1] = item]

FreeList_insert(list, item) == [list |-> Append(list, item), id |-> Len(list)]

FreeList_len(list) == Len(list)

FreeList_is_empty(list) == Len(list) = 0

(***************************************************************************)
(* The value store (crate::store::LookupMap).                              *)
(***************************************************************************)
LookupMap_get(map, k) == map[k]

LookupMap_contains_key(map, k) == map[k] # None

LookupMap_set(map, k, v) == [map EXCEPT ![k] = v]

(***************************************************************************)
(* Node                                                                    *)
(***************************************************************************)
Node_of(key) == [key |-> key, lft |-> None, rgt |-> None, ht |-> 0]

Node_left(node, list) ==
  IF node.lft = None THEN None
  ELSE LET n == FreeList_get(list, node.lft[1])
       IN IF n = None THEN None ELSE Some([id |-> node.lft[1], node |-> n[1]])

Node_right(node, list) ==
  IF node.rgt = None THEN None
  ELSE LET n == FreeList_get(list, node.rgt[1])
       IN IF n = None THEN None ELSE Some([id |-> node.rgt[1], node |-> n[1]])

\* link.and_then(|id| self.node(id).map(|n| n.ht)).unwrap_or_default()
LinkHt(ns, link) ==
  IF link = None THEN 0
  ELSE LET n == FreeList_get(ns, link[1]) IN IF n = None THEN 0 ELSE n[1].ht

(***************************************************************************)
(* Tree: the helpers of insert. Each returns the arena it leaves behind    *)
(* (ns), whether it returned ("ok") or how it did not, and its results.    *)
(* A function whose body is a sequence of statements is written as a chain *)
(* of operators, one per statement, each taking the result of the one      *)
(* before it.                                                              *)
(***************************************************************************)
Ret(fault, ns, id) == [fault |-> fault, ns |-> ns, id |-> id]

\* *expect(self.nodes.get_mut(id)) = node.clone()
update_height_save(ns, node, id) ==
  IF FreeList_get(ns, id) = None
  THEN [fault |-> "abort", ns |-> ns, node |-> node]
  ELSE [fault |-> "ok", ns |-> FreeList_set(ns, id, node), node |-> node]

\* update_height that counts the node twice
update_height_twice(ns, node, id) ==
  update_height_save(
    ns, [node EXCEPT !.ht = 2 + Max(LinkHt(ns, node.lft), LinkHt(ns, node.rgt))], id)

update_height(ns, node, id) ==
  update_height_save(
    ns, [node EXCEPT !.ht = 1 + Max(LinkHt(ns, node.lft), LinkHt(ns, node.rgt))], id)

get_balance(ns, node) == LinkHt(ns, node.lft) - LinkHt(ns, node.rgt)

\* The two update_height calls that end rotate_left and rotate_right: `u1` is
\* the result of the first, `other` the node the second one saves, `new_id` the
\* id returned.
rotate_finish(u1, other, id, new_id) ==
  IF u1.fault # "ok"
  THEN Ret(u1.fault, u1.ns, id)
  ELSE Ret(update_height(u1.ns, other, id).fault, update_height(u1.ns, other, id).ns, new_id)

\* `r` is expect's argument, node.right(&self.nodes)
rotate_left_with(ns, node, id, r) ==
  IF r = None
  THEN Ret("abort", ns, id)
  ELSE rotate_finish(update_height(ns, [node EXCEPT !.lft = r[1].node.rgt], id),
                     [r[1].node EXCEPT !.rgt = Some(id)], id, r[1].id)

rotate_left(ns, node, id) == rotate_left_with(ns, node, id, Node_right(node, ns))

rotate_right_with(ns, node, id, r) ==
  IF r = None
  THEN Ret("abort", ns, id)
  ELSE rotate_finish(update_height(ns, [node EXCEPT !.rgt = r[1].node.lft], id),
                     [r[1].node EXCEPT !.lft = Some(id)], id, r[1].id)

rotate_right(ns, node, id) == rotate_right_with(ns, node, id, Node_right(node, ns))

\* balance > 1, after `rotated = self.rotate_right(&mut left, left_id)`
enforce_balance_lr(rot, node, id) ==
  IF rot.fault # "ok"
  THEN Ret(rot.fault, rot.ns, id)
  ELSE rotate_left(rot.ns, [node EXCEPT !.lft = Some(rot.id)], id)

\* balance > 1; `l` is node.left(&self.nodes)
enforce_balance_left(ns, node, id, l) ==
  IF l = None
  THEN Ret("abort", ns, id)
  ELSE IF get_balance(ns, l[1].node) < 0
       THEN enforce_balance_lr(rotate_right(ns, l[1].node, l[1].id), node, id)
       ELSE rotate_left(ns, node, id)

\* balance < -1, after `rotated = self.rotate_left(&mut right, right_id)`
enforce_balance_rl(rot, node, id) ==
  IF rot.fault # "ok"
  THEN Ret(rot.fault, rot.ns, id)
  ELSE rotate_right(rot.ns, [node EXCEPT !.rgt = Some(rot.id)], id)

\* balance < -1; `r` is node.right(&self.nodes)
enforce_balance_right(ns, node, id, r) ==
  IF r = None
  THEN Ret("abort", ns, id)
  ELSE IF get_balance(ns, r[1].node) > 0
       THEN enforce_balance_rl(rotate_left(ns, r[1].node, r[1].id), node, id)
       ELSE rotate_right(ns, node, id)

enforce_balance_by(ns, node, id, balance) ==
  IF balance > 1 THEN enforce_balance_left(ns, node, id, Node_left(node, ns))
  ELSE IF balance < -1 THEN enforce_balance_right(ns, node, id, Node_right(node, ns))
  ELSE Ret("ok", ns, id)

enforce_balance(ns, node, id) == enforce_balance_by(ns, node, id, get_balance(ns, node))

\* self.nodes.insert(Node::of(key))
insert_new(a) == Ret("ok", a.list, a.id)

\* insert_at after `node.lft = Some(idx)` or `node.rgt = Some(idx)`: `u` is the
\* result of update_height
insert_at_balance(u, id) ==
  IF u.fault # "ok" THEN Ret(u.fault, u.ns, id) ELSE enforce_balance(u.ns, u.node, id)

\* insert_at once `idx` is known: `sub` is the result of the match that gives idx
insert_at_left(sub, node, id) ==
  IF sub.fault # "ok" THEN sub
  ELSE insert_at_balance(update_height(sub.ns, [node EXCEPT !.lft = Some(sub.id)], id), id)

insert_at_right(sub, node, id) ==
  IF sub.fault # "ok" THEN sub
  ELSE insert_at_balance(update_height(sub.ns, [node EXCEPT !.rgt = Some(sub.id)], id), id)

\* `path` holds the slots whose node this descent has already entered. The arena
\* is not written before the descent ends, so entering a slot twice means the
\* recursion never ends: the call stack overflows.
RECURSIVE insert_at(_, _, _, _, _)

\* self.insert_at(expect(self.node(child)).clone(), id, key): `c` is self.node(child)
insert_at_child(ns, c, id, key, path) ==
  IF c = None THEN Ret("abort", ns, id) ELSE insert_at(ns, c[1], id, key, path)

\* match node.lft / node.rgt { Some(child) => self.insert_at(..), None => self.nodes.insert(..) }
insert_at_link(ns, link, id, key, path) ==
  IF link # None
  THEN IF link[1] \in path
       THEN Ret("overflow", ns, id)
       ELSE insert_at_child(ns, FreeList_get(ns, link[1]), id, key, path \cup {link[1]})
  ELSE insert_new(FreeList_insert(ns, Node_of(key)))

insert_at(ns, node, id, key, path) ==
  IF key = node.key
  THEN Ret("ok", ns, id)
  ELSE IF key < node.key
       THEN insert_at_left(insert_at_link(ns, node.lft, id, key, path), node, id)
       ELSE insert_at_right(insert_at_link(ns, node.rgt, id, key, path), node, id)

TreeRet(fault, ns, rt) == [fault |-> fault, ns |-> ns, root |-> rt]

\* `n` is self.node(root); the id insert_at returns is dropped
internal_insert_root(rt, ns, key, n) ==
  IF n = None
  THEN TreeRet("abort", ns, rt)
  ELSE TreeRet(insert_at(ns, n[1], rt[1], key, {rt[1]}).fault,
               insert_at(ns, n[1], rt[1], key, {rt[1]}).ns, rt)

internal_insert_empty(a) == TreeRet("ok", a.list, Some(a.id))

internal_insert(rt, ns, key) ==
  IF rt # None
  THEN internal_insert_root(rt, ns, key, FreeList_get(ns, rt[1]))
  ELSE internal_insert_empty(FreeList_insert(ns, Node_of(key)))

(***************************************************************************)
(* Tree: remove.                                                           *)
(***************************************************************************)
Found(fault, found) == [fault |-> fault, found |-> found]

\* The loop of lookup_at; `seen` holds the slots already visited: the arena is
\* only read, so visiting a slot twice means the loop never ends.
RECURSIVE lookup_loop(_, _, _, _, _)

\* match node.rgt / node.lft { Some(next) => { p = node; at = next }, None => break }
lookup_step(ns, node, link, key, seen) ==
  IF link = None THEN Found("ok", None)
  ELSE IF link[1] \in seen THEN Found("hang", None)
  ELSE lookup_loop(ns, link[1], node, key, seen \cup {link[1]})

\* `n` is self.node(at)
lookup_node(ns, n, p, key, seen) ==
  IF n = None THEN Found("ok", None)
  ELSE IF n[1].key = key THEN Found("ok", Some([node |-> n[1], parent |-> p]))
  ELSE IF n[1].key < key THEN lookup_step(ns, n[1], n[1].rgt, key, seen)
  ELSE lookup_step(ns, n[1], n[1].lft, key, seen)

lookup_loop(ns, at, p, key, seen) == lookup_node(ns, FreeList_get(ns, at), p, key, seen)

\* `p` is self.node(at), which lookup_at unwraps
lookup_at_from(ns, at, key, p) ==
  IF p = None THEN Found("panic", None) ELSE lookup_loop(ns, at, p[1], key, {at})

lookup_at(ns, at, key) == lookup_at_from(ns, at, key, FreeList_get(ns, at))

RootRet(fault, rt) == [fault |-> fault, root |-> rt]

\* do_remove once self.root.and_then(|root| self.lookup_at(root, key)) is known:
\* every branch that found the key ends in todo!()
do_remove_found(rt, ns, l) ==
  IF l.fault # "ok" THEN RootRet(l.fault, rt)
  ELSE IF l.found = None THEN RootRet("ok", rt)
  ELSE IF l.found[1].node.lft = None /\ l.found[1].node.rgt = None
       THEN RootRet("panic", rt)
       ELSE IF get_balance(ns, l.found[1].node) >= 0
            THEN RootRet("panic", rt)
            ELSE RootRet("panic", rt)

do_remove(rt, ns, key) ==
  do_remove_found(rt, ns, IF rt = None THEN Found("ok", None) ELSE lookup_at(ns, rt[1], key))

(***************************************************************************)
(* Tree: the ordered queries. Each returns whether it returned and the key *)
(* found. Their loops only read the arena and choose the next slot from    *)
(* the current one alone, so visiting a slot twice means the loop never    *)
(* ends; `seen_at` holds the slots already visited.                        *)
(***************************************************************************)
Tree_node(ns, id) == FreeList_get(ns, id)

RECURSIVE min_loop(_, _, _, _)

\* `node` is self.node(at); match node.as_ref().and_then(|n| n.lft)
min_step(ns, node, parent, seen_at) ==
  IF node = None THEN Found("ok", None)
  ELSE IF node[1].lft = None
       THEN Found("ok", IF parent = None THEN None
                        ELSE Some([node |-> node[1], parent |-> parent[1]]))
       ELSE IF node[1].lft[1] \in seen_at THEN Found("hang", None)
            ELSE min_loop(ns, node[1].lft[1], node, seen_at \cup {node[1].lft[1]})

min_loop(ns, at, parent, seen_at) == min_step(ns, Tree_node(ns, at), parent, seen_at)

min_at(ns, at, p) == min_loop(ns, at, Tree_node(ns, p), {at})

RECURSIVE max_loop(_, _, _, _)

\* `node` is self.node(at); match node.as_ref().and_then(|n| n.rgt)
max_step(ns, node, parent, seen_at) ==
  IF node = None THEN Found("ok", None)
  ELSE IF node[1].rgt = None
       THEN Found("ok", IF parent = None THEN None
                        ELSE Some([node |-> node[1], parent |-> parent[1]]))
       ELSE IF node[1].rgt[1] \in seen_at THEN Found("hang", None)
            ELSE max_loop(ns, node[1].rgt[1], node, seen_at \cup {node[1].rgt[1]})

max_loop(ns, at, parent, seen_at) == max_step(ns, Tree_node(ns, at), parent, seen_at)

max_at(ns, at, p) == max_loop(ns, at, Tree_node(ns, p), {at})

\* .map(|(n, _)| &n.key)
KeyOfPair(r) ==
  IF r.fault # "ok" \/ r.found = None THEN Found(r.fault, None)
  ELSE Found("ok", Some(r.found[1].node.key))

min(rt, ns) == IF rt = None THEN Found("ok", None) ELSE KeyOfPair(min_at(ns, rt[1], rt[1]))

max(rt, ns) == IF rt = None THEN Found("ok", None) ELSE KeyOfPair(max_at(ns, rt[1], rt[1]))

RECURSIVE above_loop(_, _, _, _, _)

\* match node.rgt / node.lft { Some(next) => at = next, None => break }
above_next(ns, link, key, seen, seen_at) ==
  IF link = None THEN Found("ok", seen)
  ELSE IF link[1] \in seen_at THEN Found("hang", None)
  ELSE above_loop(ns, link[1], key, seen, seen_at \cup {link[1]})

\* `node` is self.node(at)
above_step(ns, node, key, seen, seen_at) ==
  IF node = None THEN Found("ok", seen)
  ELSE IF node[1].key <= key
       THEN above_next(ns, node[1].rgt, key, seen, seen_at)
       ELSE above_next(ns, node[1].lft, key, Some(node[1].key), seen_at)

above_loop(ns, at, key, seen, seen_at) == above_step(ns, Tree_node(ns, at), key, seen, seen_at)

above_at(ns, at, key) == above_loop(ns, at, key, None, {at})

RECURSIVE below_loop(_, _, _, _, _)

\* match node.rgt / node.lft { Some(next) => at = next, None => break }
below_next(ns, link, key, seen, seen_at) ==
  IF link = None THEN Found("ok", seen)
  ELSE IF link[1] \in seen_at THEN Found("hang", None)
  ELSE below_loop(ns, link[1], key, seen, seen_at \cup {link[1]})

\* `node` is self.node(at)
below_step(ns, node, key, seen, seen_at) ==
  IF node = None THEN Found("ok", seen)
  ELSE IF node[1].key < key
       THEN below_next(ns, node[1].rgt, key, Some(node[1].key), seen_at)
       ELSE below_next(ns, node[1].lft, key, seen, seen_at)

below_loop(ns, at, key, seen, seen_at) == below_step(ns, Tree_node(ns, at), key, seen, seen_at)

below_at(ns, at, key) == below_loop(ns, at, key, None, {at})

\* higher with `expect(self.root)` in place of `self.root?`
higher_expect_root(rt, ns, key) ==
  IF rt = None THEN Found("abort", None) ELSE above_at(ns, rt[1], key)

higher(rt, ns, key) == IF rt = None THEN Found("ok", None) ELSE above_at(ns, rt[1], key)

lower(rt, ns, key) == IF rt = None THEN Found("ok", None) ELSE below_at(ns, rt[1], key)

(***************************************************************************)
(* TreeMap: the public operations, as functions of the map's state.        *)
(***************************************************************************)
MapRet(fault, rt, ns, vs, r) ==
  [fault |-> fault, root |-> rt, ns |-> ns, vs |-> vs, ret |-> r]

len(ns) == FreeList_len(ns)

is_empty(ns) == FreeList_is_empty(ns)

get(vs, k) == LookupMap_get(vs, k)

contains_key(vs, k) == LookupMap_contains_key(vs, k)

\* insert_vacant without `v.insert(value)`
insert_vacant_no_value(r, vs, key, value) == MapRet(r.fault, r.root, r.ns, vs, None)

\* lm::Entry::Vacant: `r` is the result of self.tree.internal_insert(key)
insert_vacant(r, vs, key, value) ==
  IF r.fault # "ok"
  THEN MapRet(r.fault, r.root, r.ns, vs, None)
  ELSE MapRet("ok", r.root, r.ns, LookupMap_set(vs, key, Some(value)), None)

\* insert without the check of the value store: the Index is asked for every key
insert_always_index(rt, ns, vs, key, value) ==
  IF internal_insert(rt, ns, key).fault # "ok"
  THEN MapRet(internal_insert(rt, ns, key).fault, internal_insert(rt, ns, key).root,
              internal_insert(rt, ns, key).ns, vs, None)
  ELSE MapRet("ok", internal_insert(rt, ns, key).root, internal_insert(rt, ns, key).ns,
              LookupMap_set(vs, key, Some(value)), LookupMap_get(vs, key))

insert(rt, ns, vs, key, value) ==
  IF LookupMap_contains_key(vs, key)
  THEN MapRet("ok", rt, ns, LookupMap_set(vs, key, Some(value)), LookupMap_get(vs, key))
  ELSE insert_vacant(internal_insert(rt, ns, key), vs, key, value)

\* `r` is the result of self.tree.do_remove(key), `vs1` the value store after
\* self.values.remove(key)
remove_existing(r, rt, ns, vs1, existing) ==
  IF r.fault # "ok"
  THEN MapRet(r.fault, rt, ns, vs1, None)
  ELSE MapRet("ok", r.root, ns, vs1, existing)

\* remove without `if existing.is_some()`: do_remove runs for every key
remove_unguarded(rt, ns, vs, key) ==
  remove_existing(do_remove(rt, ns, key), rt, ns,
                  LookupMap_set(vs, key, None), LookupMap_get(vs, key))

remove(rt, ns, vs, key) ==
  IF LookupMap_get(vs, key) # None
  THEN remove_existing(do_remove(rt, ns, key), rt, ns,
                       LookupMap_set(vs, key, None), LookupMap_get(vs, key))
  ELSE MapRet("ok", rt, ns, LookupMap_set(vs, key, None), LookupMap_get(vs, key))

\* the keys of the nodes that self.tree.nodes.drain() yields
Drained(ns) == {ns[i].key : i \in 1..Len(ns)}

clear(rt, ns, vs) ==
  MapRet("ok", None, << >>,
         [k \in Keys |-> IF k \in Drained(ns) THEN None ELSE vs[k]], None)

ceil_key(rt, ns, vs, key) ==
  IF contains_key(vs, key) THEN Found("ok", Some(key)) ELSE higher(rt, ns, key)

floor_key(rt, ns, vs, key) ==
  IF contains_key(vs, key) THEN Found("ok", Some(key)) ELSE lower(rt, ns, key)

\* remove_entry: the body is todo!(), whatever the key
remove_entry(rt, ns, vs, k) == MapRet("panic", rt, ns, vs, None)

\* Iter (module iter): one entry per occupied slot of the arena, in ascending
\* slot id, made of the slot's key and the value the value store holds for it;
\* a key without a value is an internal inconsistency, which is fatal.
iter(ns, vs) ==
  IF \E i \in 1..Len(ns) : LookupMap_get(vs, ns[i].key) = None
  THEN Found("abort", << >>)
  ELSE Found("ok", [i \in 1..Len(ns) |-> <<ns[i].key, LookupMap_get(vs, ns[i].key)[1]>>])

\* .rev() of a double-ended iterator
rev(s) == [i \in 1..Len(s) |-> s[Len(s) + 1 - i]]

iter_rev(ns, vs) == Found(iter(ns, vs).fault, rev(iter(ns, vs).found))

(***************************************************************************)
(* The state machine: one action per public operation. An operation that   *)
(* does not return ends the execution: no action is enabled afterwards.    *)
(***************************************************************************)
Init ==
  /\ root = None
  /\ nodes = << >>
  /\ values = [k \in Keys |-> None]
  /\ status = "ok"
  /\ lastOp = [op |-> "new", key |-> 0, val |-> 0]
  /\ ret = None
  /\ ref = [k \in Keys |-> None]
  /\ inserted = {}

\* The map after an operation whose result is r.
Becomes(r) ==
  /\ root' = r.root
  /\ nodes' = r.ns
  /\ values' = r.vs
  /\ status' = r.fault
  /\ ret' = r.ret

Insert(k, v) ==
  /\ status = "ok"
  /\ contains_key(values, k) \/ len(nodes) < MaxNodes
  /\ Becomes(insert(root, nodes, values, k, v))
  /\ lastOp' = [op |-> "insert", key |-> k, val |-> v]
  /\ ref' = [ref EXCEPT ![k] = Some(v)]
  /\ inserted' = inserted \cup {k}

Remove(k) ==
  /\ status = "ok"
  /\ Becomes(remove(root, nodes, values, k))
  /\ lastOp' = [op |-> "remove", key |-> k, val |-> 0]
  /\ ref' = [ref EXCEPT ![k] = None]
  /\ UNCHANGED inserted

Clear ==
  /\ status = "ok"
  /\ Becomes(clear(root, nodes, values))
  /\ lastOp' = [op |-> "clear", key |-> 0, val |-> 0]
  /\ ref' = [k \in Keys |-> None]
  /\ UNCHANGED inserted

DoInsert == \E k \in Keys, v \in Vals : Insert(k, v)

DoRemove == \E k \in Keys : Remove(k)

Next == DoInsert \/ DoRemove \/ Clear

Spec == Init /\ [][Next]_vars

\* The map driven by insert and remove calls only.
NextInsertRemove == DoInsert \/ DoRemove

SpecInsertRemove == Init /\ [][NextInsertRemove]_vars

\* The map driven by insert calls only.
NextInsert == DoInsert

SpecInsert == Init /\ [][NextInsert]_vars

(***************************************************************************)
(* What the claims speak of.                                               *)
(***************************************************************************)
\* the keys that have a value in the value store
StoredKeys == {k \in Keys : contains_key(values, k)}

\* the keys held in the arena's nodes
NodeKeys == {nodes[i].key : i \in 1..Len(nodes)}

\* the slots the lft and rgt links of slot i name
Links(i) ==
  {nodes[i + 1].lft[j] : j \in 1..Len(nodes[i + 1].lft)}
    \cup {nodes[i + 1].rgt[j] : j \in 1..Len(nodes[i + 1].rgt)}

\* the slots reachable from the slots of S by child links, S included
RECURSIVE ReachFrom(_)
ReachFrom(S) ==
  LET T == S \cup UNION {Links(i) : i \in S}
  IN IF T = S THEN S ELSE ReachFrom(T)

\* the slots of the subtree a link names (none for an absent child)
Subtree(link) == IF link = None THEN {} ELSE ReachFrom({link[1]})

\* the slots of the tree: those reachable from the root
TreeSlots == Subtree(root)

KeysOf(S) == {nodes[i + 1].key : i \in S}

\* the last call was op on key k and it returned
Returned(op, k) == lastOp.op = op /\ lastOp.key = k /\ status = "ok"

\* the smallest and the largest key of a set of keys, None for the empty set
SmallestOf(S) == IF S = {} THEN None ELSE Some(CHOOSE x \in S : \A y \in S : x <= y)

LargestOf(S) == IF S = {} THEN None ELSE Some(CHOOSE x \in S : \A y \in S : x >= y)

(***************************************************************************)
(* C1. For every sequence of insert and remove calls on an empty map,      *)
(* every call returns and the map then holds, for every key k, what a      *)
(* reference map given the same calls holds: get(k) = ref[k].              *)
(***************************************************************************)
C1_RefEquivalence ==
  /\ status = "ok"
  /\ \A k \in Keys : get(values, k) = ref[k]

(***************************************************************************)
(* C2. After any sequence of insert and remove calls, for every node of    *)
(* the tree every key of its left subtree is strictly less than its key    *)
(* and every key of its right subtree is strictly greater.                 *)
(***************************************************************************)
C2_BstOrder ==
  status = "ok" =>
    \A i \in TreeSlots :
      /\ \A k \in KeysOf(Subtree(nodes[i + 1].lft)) : k < nodes[i + 1].key
      /\ \A k \in KeysOf(Subtree(nodes[i + 1].rgt)) : k > nodes[i + 1].key

(***************************************************************************)
(* C3. In every state reached by insert and remove calls that leaves the   *)
(* map non-empty, every node reachable from the root has                   *)
(* balance = height(left) - height(right) in {-1, 0, 1}, an absent child   *)
(* counting as height 0.                                                   *)
(***************************************************************************)
C3_AvlBalance ==
  (status = "ok" /\ ~is_empty(nodes)) =>
    \A i \in TreeSlots : get_balance(nodes, nodes[i + 1]) \in {-1, 0, 1}

(***************************************************************************)
(* C4. After every completed insert, remove or clear the set of keys held  *)
(* in the tree's nodes equals the set of keys that have a value in the     *)
(* value store.                                                            *)
(***************************************************************************)
C4_KeySetEquality == status = "ok" => NodeKeys = StoredKeys

C6_InsertReturns ==
  [][\A k \in Keys, v \in Vals :
       (status = "ok" /\ lastOp' = [op |-> "insert", key |-> k, val |-> v]) =>
         /\ status' = "ok"
         /\ ~contains_key(values, k) => ret' = None
         /\ contains_key(values, k) =>
              (ret' = get(values, k) /\ get(values', k) = Some(v))]_vars

(***************************************************************************)
(* C7. remove(k) on a key stored with value v returns Some(v); afterwards  *)
(* get(k) is None, contains_key(k) is false and no tree node holds k.      *)
(***************************************************************************)
C7_RemoveStored ==
  [][\A k \in Keys :
       (status = "ok" /\ lastOp'.op = "remove" /\ lastOp'.key = k
          /\ contains_key(values, k)) =>
         /\ status' = "ok"
         /\ ret' = get(values, k)
         /\ get(values', k) = None
         /\ ~contains_key(values', k)
         /\ k \notin NodeKeys']_vars

(***************************************************************************)
(* C8. remove(k) on a key that is not stored (including on an empty map)   *)
(* returns None and leaves the root pointer, every arena node and every    *)
(* stored value unchanged.                                                 *)
(***************************************************************************)
C8_RemoveAbsent ==
  [][\A k \in Keys :
       (status = "ok" /\ lastOp'.op = "remove" /\ lastOp'.key = k
          /\ ~contains_key(values, k)) =>
         /\ status' = "ok"
         /\ ret' = None
         /\ root' = root
         /\ nodes' = nodes
         /\ values' = values]_vars

\* a remove of a key that was not stored has returned on a map holding three
\* keys (a remove that returns None found no value for its key)
C8_Witness ==
  /\ Returned("remove", lastOp.key)
  /\ ret = None
  /\ Cardinality(StoredKeys) = 3
  /\ len(nodes) = 3

(***************************************************************************)
(* C9. remove(k) of a stored key leaves every other stored key             *)
(* retrievable: get(k') returns the same value after the removal as        *)
(* before it.                                                              *)
(***************************************************************************)
C9_RemoveKeepsOthers ==
  [][\A k \in Keys :
       (status = "ok" /\ lastOp'.op = "remove" /\ lastOp'.key = k
          /\ contains_key(values, k) /\ StoredKeys # {k}) =>
         /\ status' = "ok"
         /\ \A j \in StoredKeys \ {k} : get(values', j) = get(values, j)]_vars

(***************************************************************************)
(* C10. After any sequence of insert and remove calls len() is the number  *)
(* of distinct keys stored and is_empty() holds exactly when that number   *)
(* is 0.                                                                   *)
(***************************************************************************)
C10_LenIsKeyCount ==
  status = "ok" =>
    /\ len(nodes) = Cardinality(StoredKeys)
    /\ is_empty(nodes) <=> (Cardinality(StoredKeys) = 0)

(***************************************************************************)
(* C11. insert(k, v) for a key that is already stored allocates no node    *)
(* and leaves the Index unchanged: the root pointer, the number of         *)
(* occupied slots and the content of every node are as before the call.    *)
(***************************************************************************)
C11_InsertStoredKeepsIndex ==
  [][\A k \in Keys :
       (status = "ok" /\ lastOp'.op = "insert" /\ lastOp'.key = k
          /\ contains_key(values, k)) =>
         /\ status' = "ok"
         /\ root' = root
         /\ len(nodes') = len(nodes)
         /\ nodes' = nodes]_vars

\* an insert of a stored key has returned the old value on a map of three nodes
C11_Witness ==
  /\ Returned("insert", lastOp.key)
  /\ ret # None
  /\ len(nodes) = 3

(***************************************************************************)
(* The helpers of the tests: height reads the height stored in the root    *)
(* node (0 for an empty map); max_tree_height(n) is                        *)
(* ceil(1.440 * log2(n + 1.065) - 0.328) converted to u32, tabulated here  *)
(* for n = 0..11 (the conversion saturates the negative value at n = 0).   *)
(***************************************************************************)
height(rt, ns) == LinkHt(ns, rt)

max_tree_height(n) ==
  IF n = 0 THEN 0 ELSE <<2, 2, 3, 4, 4, 4, 5, 5, 5, 5, 5>>[n]

C13_StoredHeights ==
  status = "ok" =>
    \A i \in TreeSlots :
      nodes[i + 1].ht = 1 + Max(LinkHt(nodes, nodes[i + 1].lft), LinkHt(nodes, nodes[i + 1].rgt))

(***************************************************************************)
(* C14. After clear() on any reachable state, len() is 0, is_empty() is    *)
(* true, the arena has no occupied slot, the root is none, and get(k) is   *)
(* None for every key that was stored before the call.                     *)
(***************************************************************************)
C14_ClearEmpties ==
  [][(status = "ok" /\ lastOp'.op = "clear") =>
       /\ status' = "ok"
       /\ len(nodes') = 0
       /\ is_empty(nodes')
       /\ FreeList_len(nodes') = 0
       /\ root' = None
       /\ \A k \in Keys : contains_key(values, k) => get(values', k) = None]_vars

(***************************************************************************)
(* C15. On any map state reached by inserts, higher(key) returns the       *)
(* smallest stored key strictly greater than key, and None when there is   *)
(* none, whether or not key itself is stored.                              *)
(***************************************************************************)
C15_Higher ==
  status = "ok" =>
    \A key \in Keys :
      higher(root, nodes, key) = Found("ok", SmallestOf({k \in StoredKeys : k > key}))

(***************************************************************************)
(* C16. On any map state reached by inserts, lower(key) returns the        *)
(* largest stored key strictly less than key, and None when there is none, *)
(* whether or not key itself is stored.                                    *)
(***************************************************************************)
C16_Lower ==
  status = "ok" =>
    \A key \in Keys :
      lower(root, nodes, key) = Found("ok", LargestOf({k \in StoredKeys : k < key}))

(***************************************************************************)
(* C17. After any sequence of inserts, in any order and with duplicates,   *)
(* max() returns the largest stored key, and None exactly when the map is  *)
(* empty.                                                                  *)
(***************************************************************************)
C17_Max ==
  status = "ok" =>
    /\ max(root, nodes) = Found("ok", LargestOf(StoredKeys))
    /\ (max(root, nodes).found = None <=> is_empty(nodes))

(***************************************************************************)
(* C18. After any sequence of inserts, in any order and with duplicates,   *)
(* min() returns the smallest stored key, and None exactly when the map is *)
(* empty.                                                                  *)
(***************************************************************************)
C18_Min ==
  status = "ok" =>
    /\ min(root, nodes) = Found("ok", SmallestOf(StoredKeys))
    /\ (min(root, nodes).found = None <=> is_empty(nodes))

(***************************************************************************)
(* C19. ceil_key(key) returns the smallest stored key greater than or      *)
(* equal to key: key itself when it is stored, otherwise its strict        *)
(* successor, and None when every stored key is smaller.                   *)
(***************************************************************************)
C19_CeilKey ==
  status = "ok" =>
    \A key \in Keys :
      ceil_key(root, nodes, values, key)
        = Found("ok", SmallestOf({k \in StoredKeys : k >= key}))

(***************************************************************************)
(* C20. floor_key(key) returns the largest stored key less than or equal   *)
(* to key: key itself when it is stored, otherwise its strict predecessor, *)
(* and None when every stored key is larger.                               *)
(***************************************************************************)
C20_FloorKey ==
  status = "ok" =>
    \A key \in Keys :
      floor_key(root, nodes, values, key)
        = Found("ok", LargestOf({k \in StoredKeys : k <= key}))

(***************************************************************************)
(* The map the tests build before the call they examine: the keys of `ks`  *)
(* inserted in order into a new map.                                       *)
(***************************************************************************)
NewMap == MapRet("ok", None, << >>, [k \in Keys |-> None], None)

RECURSIVE InsertAll(_, _)
InsertAll(m, ks) ==
  IF ks = << >> \/ m.fault # "ok" THEN m
  ELSE InsertAll(insert(m.root, m.ns, m.vs, Head(ks), CHOOSE v \in Vals : TRUE), Tail(ks))

\* the Index is the one InsertAll leaves after inserting ks into a new map
IndexAfter(ks) ==
  /\ status = "ok"
  /\ InsertAll(NewMap, ks).fault = "ok"
  /\ root = InsertAll(NewMap, ks).root
  /\ nodes = InsertAll(NewMap, ks).ns
  /\ StoredKeys = {ks[i] : i \in 1..Len(ks)}

(***************************************************************************)
(* C21. For any keys a < b < c inserted into an empty map in descending    *)
(* order c, b, a, the third insert performs a left-left rebalancing: the   *)
(* root pointer becomes the slot allocated to b (slot 1), the root key is  *)
(* b and the root height is 2.                                             *)
(***************************************************************************)
C21_RotateLL ==
  [][\A a, b, c \in Keys :
       (a < b /\ b < c /\ IndexAfter(<<c, b>>)
          /\ lastOp'.op = "insert" /\ lastOp'.key = a) =>
         /\ status' = "ok"
         /\ root' = Some(1)
         /\ Tree_node(nodes', 1) # None
         /\ Tree_node(nodes', 1)[1].key = b
         /\ height(root', nodes') = 2]_vars

(***************************************************************************)
(* C22. For any keys a < b < c inserted into an empty map in ascending     *)
(* order a, b, c, the third insert performs a right-right rebalancing: the *)
(* root pointer becomes the slot allocated to b (slot 1), the root key is  *)
(* b and the root height is 2.                                             *)
(***************************************************************************)
C22_RotateRR ==
  [][\A a, b, c \in Keys :
       (a < b /\ b < c /\ IndexAfter(<<a, b>>)
          /\ lastOp'.op = "insert" /\ lastOp'.key = c) =>
         /\ status' = "ok"
         /\ root' = Some(1)
         /\ Tree_node(nodes', 1) # None
         /\ Tree_node(nodes', 1)[1].key = b
         /\ height(root', nodes') = 2]_vars

(***************************************************************************)
(* C23. On a newly created (empty) map every query reports not-found       *)
(* without raising a fault: len() is 0, the tree height is 0, get(k) is    *)
(* None, contains_key(k) is false, and min, max, lower(k), higher(k),      *)
(* floor_key(k), ceil_key(k) and remove(k) all return None, for every key  *)
(* k. The map is new as long as no key has been passed to insert.          *)
(***************************************************************************)
C23_EmptyMapQueries ==
  (status = "ok" /\ inserted = {}) =>
    /\ len(nodes) = 0
    /\ height(root, nodes) = 0
    /\ min(root, nodes) = Found("ok", None)
    /\ max(root, nodes) = Found("ok", None)
    /\ \A k \in Keys :
         /\ get(values, k) = None
         /\ ~contains_key(values, k)
         /\ lower(root, nodes, k) = Found("ok", None)
         /\ higher(root, nodes, k) = Found("ok", None)
         /\ floor_key(root, nodes, values, k) = Found("ok", None)
         /\ ceil_key(root, nodes, values, k) = Found("ok", None)
         /\ remove(root, nodes, values, k).fault = "ok"
         /\ remove(root, nodes, values, k).ret = None

\* remove has returned None on a map that never had a key inserted
C23_Witness ==
  /\ inserted = {}
  /\ lastOp.op = "remove"
  /\ status = "ok"
  /\ ret = None
  /\ len(nodes) = 0

(***************************************************************************)
(* C24. iter() yields every stored (key, value) entry exactly once, in     *)
(* arena slot order (one entry per occupied slot, ascending slot id), so   *)
(* its count equals len(); iter().rev() yields the exact reverse sequence; *)
(* on an empty map both yield nothing.                                     *)
(***************************************************************************)
C24_IterArenaOrder ==
  status = "ok" =>
    /\ iter(nodes, values).fault = "ok"
    /\ Len(iter(nodes, values).found) = len(nodes)
    /\ \A i \in 1..Len(iter(nodes, values).found) :
         iter(nodes, values).found[i][1] = nodes[i].key
    /\ \A k \in StoredKeys :
         Cardinality({i \in 1..Len(iter(nodes, values).found) :
                        iter(nodes, values).found[i] = <<k, get(values, k)[1]>>}) = 1
    /\ iter_rev(nodes, values) = Found("ok", rev(iter(nodes, values).found))
    /\ (StoredKeys = {} => iter(nodes, values).found = << >>)

(***************************************************************************)
(* The iteration of the reference BTreeMap: its entries in ascending key   *)
(* order.                                                                  *)
(***************************************************************************)
RECURSIVE EntriesFrom(_, _)
EntriesFrom(m, k) ==
  IF k > MaxKey THEN << >>
  ELSE (IF m[k] = None THEN << >> ELSE <<(<<k, m[k][1]>>)>>) \o EntriesFrom(m, k + 1)

BTreeMap_iter(m) == EntriesFrom(m, 1)

(***************************************************************************)
(* C25. For any sequence of inserts and removes, iter() yields the (key,   *)
(* value) entries in the same sequence as the iteration of a BTreeMap      *)
(* given the same calls, i.e. in ascending key order.                      *)
(***************************************************************************)
C25_IterLikeBTreeMap ==
  status = "ok" => iter(nodes, values) = Found("ok", BTreeMap_iter(ref))

(***************************************************************************)
(* C26. remove_entry(k) on a stored key returns the stored key together    *)
(* with its value and removes the entry from the map; on a key that is not *)
(* stored it returns None.                                                 *)
(***************************************************************************)
C26_RemoveEntry ==
  status = "ok" =>
    \A k \in Keys :
      /\ remove_entry(root, nodes, values, k).fault = "ok"
      /\ contains_key(values, k) =>
           /\ remove_entry(root, nodes, values, k).ret = Some(<<k, get(values, k)[1]>>)
           /\ ~contains_key(remove_entry(root, nodes, values, k).vs, k)
      /\ ~contains_key(values, k) => remove_entry(root, nodes, values, k).ret = None

(***************************************************************************)
(* C27. Every call of insert, remove, min, max, higher, lower, floor_key   *)
(* and ceil_key on a state reached through the public operations           *)
(* terminates: no insert or remove has run into a recursion or a loop      *)
(* without end, and on every state a call returned to, no query does.      *)
(***************************************************************************)
C27_Terminates ==
  /\ status \notin {"hang", "overflow"}
  /\ status = "ok" =>
       /\ min(root, nodes).fault # "hang"
       /\ max(root, nodes).fault # "hang"
       /\ \A k \in Keys :
            /\ higher(root, nodes, k).fault # "hang"
            /\ lower(root, nodes, k).fault # "hang"
            /\ floor_key(root, nodes, values, k).fault # "hang"
            /\ ceil_key(root, nodes, values, k).fault # "hang"

(***************************************************************************)
(* C28. Starting from an empty map, no sequence of insert, remove, clear   *)
(* and query calls triggers a fatal abort or panic: the expect/unwrap      *)
(* failure paths and the unimplemented branches are unreachable through    *)
(* the public interface.                                                   *)
(***************************************************************************)
C28_NoAbortNoPanic ==
  /\ status \notin {"abort", "panic"}
  /\ status = "ok" =>
       /\ min(root, nodes).fault \notin {"abort", "panic"}
       /\ max(root, nodes).fault \notin {"abort", "panic"}
       /\ \A k \in Keys :
            /\ higher(root, nodes, k).fault \notin {"abort", "panic"}
            /\ lower(root, nodes, k).fault \notin {"abort", "panic"}
            /\ floor_key(root, nodes, values, k).fault \notin {"abort", "panic"}
            /\ ceil_key(root, nodes, values, k).fault \notin {"abort", "panic"}

(***************************************************************************)
(* C29. insert(k, v) of a new key writes every node it visits on the       *)
(* descent back to that node's own slot: after the call every slot that    *)
(* was occupied before holds the same key as before, and exactly one newly *)
(* allocated slot holds k.                                                 *)
(***************************************************************************)
C29_InsertKeepsSlotKeys ==
  [][\A k \in Keys :
       (status = "ok" /\ lastOp'.op = "insert" /\ lastOp'.key = k
          /\ ~contains_key(values, k) /\ status' = "ok") =>
         /\ len(nodes') = len(nodes) + 1
         /\ \A id \in 0..(len(nodes) - 1) :
              Tree_node(nodes', id)[1].key = Tree_node(nodes, id)[1].key
         /\ Tree_node(nodes', len(nodes))[1].key = k]_vars

(***************************************************************************)
(* C30. rotate_left and rotate_right move no key: applied to a node of the *)
(* arena that has the required child (the left one for rotate_left, the    *)
(* right one for rotate_right), they return, the key held in every arena   *)
(* slot is unchanged, and the returned id is the slot of the child that    *)
(* became the subtree root.                                                *)
(***************************************************************************)
C30_RotationsMoveNoKey ==
  status = "ok" =>
    \A id \in 0..(len(nodes) - 1) :
      /\ Node_left(Tree_node(nodes, id)[1], nodes) # None =>
           /\ rotate_left(nodes, Tree_node(nodes, id)[1], id).fault = "ok"
           /\ rotate_left(nodes, Tree_node(nodes, id)[1], id).id
                = Tree_node(nodes, id)[1].lft[1]
           /\ \A j \in 0..(len(nodes) - 1) :
                Tree_node(rotate_left(nodes, Tree_node(nodes, id)[1], id).ns, j)[1].key
                  = Tree_node(nodes, j)[1].key
      /\ Node_right(Tree_node(nodes, id)[1], nodes) # None =>
           /\ rotate_right(nodes, Tree_node(nodes, id)[1], id).fault = "ok"
           /\ rotate_right(nodes, Tree_node(nodes, id)[1], id).id
                = Tree_node(nodes, id)[1].rgt[1]
           /\ \A j \in 0..(len(nodes) - 1) :
                Tree_node(rotate_right(nodes, Tree_node(nodes, id)[1], id).ns, j)[1].key
                  = Tree_node(nodes, j)[1].key

\* in the state after the step, the root node holds key b, its left child key a
\* and its right child key c, and the stored root height is 2
RootWithChildren(a, b, c) ==
  /\ status' = "ok"
  /\ root' # None
  /\ Tree_node(nodes', root'[1]) # None
  /\ Tree_node(nodes', root'[1])[1].key = b
  /\ Node_left(Tree_node(nodes', root'[1])[1], nodes') # None
  /\ Node_left(Tree_node(nodes', root'[1])[1], nodes')[1].node.key = a
  /\ Node_right(Tree_node(nodes', root'[1])[1], nodes') # None
  /\ Node_right(Tree_node(nodes', root'[1])[1], nodes')[1].node.key = c
  /\ height(root', nodes') = 2

(***************************************************************************)
(* C31. For any keys a < b < c inserted into an empty map in the order     *)
(* c, a, b (left-right case) or a, c, b (right-left case), the third       *)
(* insert performs a double rotation that makes b the root with a as its   *)
(* left child and c as its right child, root height 2.                     *)
(***************************************************************************)
C31_DoubleRotation ==
  [][\A a, b, c \in Keys :
       (a < b /\ b < c /\ (IndexAfter(<<c, a>>) \/ IndexAfter(<<a, c>>))
          /\ lastOp'.op = "insert" /\ lastOp'.key = b) =>
         RootWithChildren(a, b, c)]_vars

(***************************************************************************)
(* C32. After every completed insert or remove the root pointer designates *)
(* the root of the rebalanced tree: every occupied arena slot is reachable *)
(* from the root by child links, and the root pointer is none exactly when *)
(* the arena is empty.                                                     *)
(***************************************************************************)
C32_RootDesignatesTree ==
  (status = "ok" /\ lastOp.op \in {"insert", "remove"}) =>
    /\ TreeSlots = 0..(len(nodes) - 1)
    /\ (root = None <=> is_empty(nodes))

\* the number of links that reference slot s: the root pointer and every lft
\* and rgt field
RefCount(s) ==
  (IF root = Some(s) THEN 1 ELSE 0)
    + Cardinality({i \in 1..Len(nodes) : nodes[i].lft = Some(s)})
    + Cardinality({i \in 1..Len(nodes) : nodes[i].rgt = Some(s)})

(***************************************************************************)
(* C33. In every reachable state the child links form a tree: no node is   *)
(* reachable from itself by following lft/rgt links, and no slot is        *)
(* referenced by more than one link, counting the root pointer and every   *)
(* lft and rgt field.                                                      *)
(***************************************************************************)
C33_LinksFormTree ==
  status = "ok" =>
    \A s \in 0..(len(nodes) - 1) :
      /\ s \notin ReachFrom(Links(s))
      /\ RefCount(s) <= 1

\* the root pointer and every lft and rgt field name an occupied slot
LinksOccupied(rt, ns) ==
  /\ rt # None => FreeList_get(ns, rt[1]) # None
  /\ \A i \in 1..Len(ns) :
       /\ ns[i].lft # None => FreeList_get(ns, ns[i].lft[1]) # None
       /\ ns[i].rgt # None => FreeList_get(ns, ns[i].rgt[1]) # None

\* key k is held by a leaf of the tree that is not in the last occupied slot, so
\* that reclaiming its slot makes the arena move the last node into it
LeafBeforeLast(k) ==
  \E s \in TreeSlots :
    /\ s < len(nodes) - 1
    /\ nodes[s + 1].key = k
    /\ nodes[s + 1].lft = None
    /\ nodes[s + 1].rgt = None

(***************************************************************************)
(* C34. In every reachable state the occupied slot ids are exactly         *)
(* [0, len) and the root pointer and every lft/rgt link reference an       *)
(* occupied slot; after a remove that makes the arena relocate a node into *)
(* the freed slot, the link that referenced the relocated node references  *)
(* its new slot: the remove returns, the arena is one slot shorter, the    *)
(* other keys are still held, and no link names a slot beyond the arena.   *)
(***************************************************************************)
C34_DenseSlotsAndLinks ==
  [][/\ status' = "ok" => LinksOccupied(root', nodes')
     /\ \A k \in Keys :
          (status = "ok" /\ lastOp'.op = "remove" /\ lastOp'.key = k
             /\ contains_key(values, k) /\ LeafBeforeLast(k)) =>
            /\ status' = "ok"
            /\ len(nodes') = len(nodes) - 1
            /\ LinksOccupied(root', nodes')
            /\ {nodes'[i].key : i \in 1..Len(nodes')} = NodeKeys \ {k}]_vars

(***************************************************************************)
(* C35. Through the public insert the Index is never asked to insert a key *)
(* it already holds, and in every reachable state no key is held by more   *)
(* than one node.                                                          *)
(***************************************************************************)
C35_KeyUniqueness ==
  status = "ok" =>
    \A i, j \in 1..Len(nodes) : nodes[i].key = nodes[j].key => i = j

\* the key the spec gives node R (slot s) on removal of its key: the largest
\* key of its left subtree if balance(R) >= 0, else the smallest of its right
Substitute(s) ==
  IF get_balance(nodes, nodes[s + 1]) >= 0
  THEN LargestOf(KeysOf(Subtree(nodes[s + 1].lft)))
  ELSE SmallestOf(KeysOf(Subtree(nodes[s + 1].rgt)))

(***************************************************************************)
(* C36. When remove(k) finds k in a node R that has at least one child, R  *)
(* keeps its slot and receives a substitute key: the maximum key of R's    *)
(* left subtree if balance(R) >= 0, otherwise the minimum key of R's right *)
(* subtree; the substitute's former node is the one spliced out and        *)
(* reclaimed, so the arena is one slot shorter.                            *)
(***************************************************************************)
C36_RemoveSubstitutes ==
  [][\A k \in Keys : \A s \in TreeSlots :
       (status = "ok" /\ lastOp'.op = "remove" /\ lastOp'.key = k
          /\ contains_key(values, k) /\ nodes[s + 1].key = k
          /\ (nodes[s + 1].lft # None \/ nodes[s + 1].rgt # None)) =>
         /\ status' = "ok"
         /\ len(nodes') = len(nodes) - 1
         /\ Substitute(s) # None
         /\ Tree_node(nodes', s) # None
         /\ Tree_node(nodes', s)[1].key = Substitute(s)[1]]_vars

\* the keys of S in ascending order
RECURSIVE AscendingKeys(_)
AscendingKeys(S) ==
  IF S = {} THEN << >>
  ELSE <<SmallestOf(S)[1]>> \o AscendingKeys(S \ {SmallestOf(S)[1]})

\* The consumer's traversal: `r` is what min() or the last higher() returned,
\* `keys` the keys produced so far. The walk ends when a call returns None or
\* does not return; it is cut after MaxNodes + 1 keys, more keys than any map
\* of the model stores.
RECURSIVE WalkUp(_, _)
WalkUp(r, keys) ==
  IF r.fault # "ok" \/ r.found = None \/ Len(keys) > MaxNodes
  THEN [fault |-> r.fault, keys |-> keys]
  ELSE WalkUp(higher(root, nodes, r.found[1]), Append(keys, r.found[1]))

\* the same from max() with lower
RECURSIVE WalkDown(_, _)
WalkDown(r, keys) ==
  IF r.fault # "ok" \/ r.found = None \/ Len(keys) > MaxNodes
  THEN [fault |-> r.fault, keys |-> keys]
  ELSE WalkDown(lower(root, nodes, r.found[1]), Append(keys, r.found[1]))

(***************************************************************************)
(* C37. On any reachable map state, starting from min() and repeatedly     *)
(* applying higher to the key last returned yields every stored key        *)
(* exactly once in strictly ascending order and then None after exactly    *)
(* len() keys; symmetrically for max() with lower in descending order.     *)
(***************************************************************************)
C37_SortedWalk ==
  status = "ok" =>
    /\ WalkUp(min(root, nodes), << >>)
         = [fault |-> "ok", keys |-> AscendingKeys(StoredKeys)]
    /\ WalkDown(max(root, nodes), << >>)
         = [fault |-> "ok", keys |-> rev(AscendingKeys(StoredKeys))]
    /\ Len(WalkUp(min(root, nodes), << >>).keys) = len(nodes)
    /\ Len(WalkDown(max(root, nodes), << >>).keys) = len(nodes)

\* the first slot id the arena reports as empty
Dangling == len(nodes)

C39_ClearLikeNew ==
  [][(status = "ok" /\ lastOp'.op = "clear") =>
       /\ status' = "ok"
       /\ root' = NewMap.root
       /\ nodes' = NewMap.ns
       /\ \A k \in Keys :
            /\ get(values', k) = get(NewMap.vs, k)
            /\ contains_key(values', k) = contains_key(NewMap.vs, k)
            /\ remove(root', nodes', values', k).ret
                 = remove(NewMap.root, NewMap.ns, NewMap.vs, k).ret
            /\ \A v \in Vals :
                 insert(root', nodes', values', k, v).ret
                   = insert(NewMap.root, NewMap.ns, NewMap.vs, k, v).ret]_vars
====
